---- MODULE Spec2Model ----
(***************************************************************************)
(* Room-based chat hub (package websockets): the Hub goroutine that owns   *)
(* the membership maps, the admission handler HandleWebSocket, and the two *)
(* pumps of every Client.                                                  *)
(*                                                                         *)
(* Strings are sequences of tokens: the username "alice" is <<"alice">>,   *)
(* and concatenation is \o, so that strings.Join really inserts the ","    *)
(* separators and a roster has to be split again to be read.               *)
(***************************************************************************)
EXTENDS Integers, Sequences, FiniteSets, TLC

(* ---------------------------------------------------------------- bounds *)

\* Capacity of a client's send channel; stands for make(chan []byte, 256).
SendBufSize == 3

\* How many data frames the peers send, all together, during a run.
MaxChats == 2

(* ----------------------------------------------------------------- times *)

\* Time allowed to read the next pong message from the peer, in seconds.
pongWait == 60

\* Send pings to peer with this period.
pingPeriod == (pongWait * 9) \div 10

RECURSIVE GCD(_, _)
GCD(a, b) == IF b = 0 THEN a ELSE GCD(b, a % b)

\* Time passes in steps of this length: both periods are multiples of it.
Quantum == GCD(pongWait, pingPeriod)

(* ------------------------------------------------------ clients, strings *)

Workers == {"A", "B", "C"}

Rooms == {"lobby", "den"}

\* The peers that connect during a run: two in one room, or one in each of
\* two rooms.  The others never send a request.
Cohorts == {{"A", "B"}, {"A", "C"}}

\* client.room, fixed at construction from c.Param("room").
RoomOf(c) == IF c = "C" THEN "den" ELSE "lobby"

\* client.username, fixed at construction from c.Query("username").
UsernameOf(c) ==
    CASE c = "A" -> <<"alice">>
      [] c = "B" -> <<"bob">>
      [] OTHER   -> <<"carol">>

\* What the peers type: the n-th data frame of a run carries FrameText(n),
\* so that two frames of one peer can be told apart.
Texts == <<<<"hi">>, <<"yo">>, <<"ok">>>>

FrameText(n) == Texts[((n - 1) % Len(Texts)) + 1]

ChatContents == {Texts[n] : n \in 1..Len(Texts)}

Comma == ","

\* strings.Join(users, ",")
RECURSIVE Join(_)
Join(users) ==
    IF users = <<>> THEN <<>>
    ELSE IF Len(users) = 1 THEN users[1]
    ELSE users[1] \o <<Comma>> \o Join(Tail(users))

\* The segments of a comma-joined string, as a client splits a roster.
RECURSIVE Split(_)
Split(s) ==
    IF \A i \in 1..Len(s) : s[i] # Comma THEN <<s>>
    ELSE LET i == CHOOSE k \in 1..Len(s) :
                     s[k] = Comma /\ \A j \in 1..(k - 1) : s[j] # Comma
         IN <<SubSeq(s, 1, i - 1)>> \o Split(SubSeq(s, i + 1, Len(s)))

\* The usernames a roster content names.
RosterNames(content) ==
    IF content = <<>> THEN {}
    ELSE {Split(content)[i] : i \in 1..Len(Split(content))}

\* All orders in which the range over a map with keys S may visit them.
Orders(S) == {o \in [1..Cardinality(S) -> S] :
                 \A i, j \in 1..Cardinality(S) : i # j => o[i] # o[j]}

\* The members of set S in the order o visits them.
RECURSIVE InOrder(_, _)
InOrder(o, S) ==
    IF o = <<>> THEN <<>>
    ELSE (IF Head(o) \in S THEN <<Head(o)>> ELSE <<>>) \o InOrder(Tail(o), S)

(* -------------------------------------------------------------- messages *)

\* type Message struct
Message(type, content, room, username) ==
    [Type |-> type, Content |-> content, RoomName |-> room, Username |-> username]

\* json.Marshal(msg): the wire record, with the json field names.
Marshal(msg) ==
    [type |-> msg.Type, content |-> msg.Content,
     room |-> msg.RoomName, username |-> msg.Username]

joinMessage(c) ==
    Message("user_joined", UsernameOf(c) \o <<" joined the room">>,
            RoomOf(c), UsernameOf(c))

leftMessage(c) ==
    Message("user_left", UsernameOf(c) \o <<" left the room">>,
            RoomOf(c), UsernameOf(c))

chatMessage(c, text) == Message("chat", text, RoomOf(c), UsernameOf(c))

rosterMessage(room, users) == Message("online_users", Join(users), room, <<>>)

(* ----------------------------------------------------------------- state *)

VARIABLES
    clients,   \* Hub.clients: the keys of the map
    rooms,     \* Hub.rooms: room name -> set of clients; DOMAIN = the keys
    hubpc,     \* where Hub.Run stands: "select", "send" (blocked), "panic"
    send,      \* Client.send: the buffered channel's content
    closed,    \* Client.send has been closed
    conn,      \* Client.conn: "open" or, once Close() was called, "closed"
    apc,       \* HandleWebSocket for this client: where the handler stands
    rpc,       \* readPump: where it stands
    wpc,       \* writePump: where it stands
    inmsg,     \* the frame readPump has read and is forwarding
    nread,     \* frames read from the peers so far
    step,      \* the event the Hub handled in the step into this state, and
               \* what it routed; NoStep when the step was not the Hub's
    log,       \* per room, every call of handleBroadcast so far: the message,
               \* the clients it was put to, the clients it evicted and the
               \* event the Hub was handling
    readDeadline,  \* conn's read deadline: the seconds left until it passes
    ticker,        \* writePump's ticker: the seconds left until it fires
    sinceAck,      \* seconds since the pong handler ran, or readPump began
    sincePing      \* seconds since writePump sent a ping, or began

timers == <<readDeadline, ticker, sinceAck, sincePing>>

vars == <<clients, rooms, hubpc, send, closed, conn, apc, rpc, wpc, inmsg,
          nread, step, log, readDeadline, ticker, sinceAck, sincePing>>

NoStep == [op |-> "none", client |-> "none", sends |-> <<>>]

\* The state NewHub leaves, the peers in cohort being about to connect.
InitWith(cohort) ==
    /\ clients = {}
    /\ rooms = [r \in {} |-> {}]
    /\ hubpc = "select"
    /\ send = [c \in Workers |-> <<>>]
    /\ closed = [c \in Workers |-> FALSE]
    /\ conn = [c \in Workers |-> "open"]
    /\ apc = [c \in Workers |-> IF c \in cohort THEN "new" ELSE "absent"]
    /\ rpc = [c \in Workers |-> "off"]
    /\ wpc = [c \in Workers |-> "off"]
    /\ inmsg = [c \in Workers |-> <<>>]
    /\ nread = 0
    /\ step = NoStep
    /\ log = [r \in Rooms |-> <<>>]
    /\ readDeadline = [c \in Workers |-> 0]
    /\ ticker = [c \in Workers |-> 0]
    /\ sinceAck = [c \in Workers |-> 0]
    /\ sincePing = [c \in Workers |-> 0]

Init == \E cohort \in Cohorts : InitWith(cohort)

(* ------------------------------------------------------------------- Hub *)

\* The Hub's own state while it handles the event op of client.
HubState(op, client) ==
    [clients |-> clients, rooms |-> rooms, send |-> send, closed |-> closed,
     pc |-> hubpc, ev |-> [op |-> op, client |-> client], sends |-> <<>>,
     log |-> log]

\* In the operators below a Hub state that is read more than once is first
\* bound to a name by a singleton set, { F(x) : x \in {h} }, so that it is
\* computed once; Only picks the one element of such a set.
Only(S) == CHOOSE x \in S : TRUE

\* A plain client.send <- jsonMsg, with no default case.
SelectSendBlocking(h, c) ==
    IF h.closed[c] THEN "panic"
    ELSE IF Len(h.send[c]) < SendBufSize THEN "sent"
    ELSE "blocked"

\* A select on a channel made without a buffer: one waiting frame fills it.
SelectSendUnbuffered(h, c) ==
    IF h.closed[c] THEN "panic"
    ELSE IF Len(h.send[c]) < 1 THEN "sent"
    ELSE "default"

\* select { case client.send <- jsonMsg: ... default: ... } on one client:
\* a send on a closed channel panics, a send on a channel with room
\* proceeds, and otherwise the default case runs.
SelectSend(h, c) ==
    IF h.closed[c] THEN "panic"
    ELSE IF Len(h.send[c]) < SendBufSize THEN "sent"
    ELSE "default"

\* A broadcast that ranges over h.clients instead of the room.
roomClientsAll(h, msg) == h.clients

\* The clients handleBroadcast ranges over.
roomClients(h, msg) ==
    IF msg.RoomName \in DOMAIN h.rooms THEN h.rooms[msg.RoomName] ELSE {}

\* An eviction that forgets delete(h.clients, client).
evictKeepClient(h, room, full) ==
    [h EXCEPT
       !.closed = [c \in Workers |-> h.closed[c] \/ c \in full],
       !.rooms = [r \in DOMAIN h.rooms |->
                    IF r = room THEN h.rooms[r] \ full ELSE h.rooms[r]]]

\* An eviction that forgets close(client.send).
evictNoClose(h, room, full) ==
    [h EXCEPT
       !.clients = h.clients \ full,
       !.rooms = [r \in DOMAIN h.rooms |->
                    IF r = room THEN h.rooms[r] \ full ELSE h.rooms[r]]]

\* An eviction that forgets delete(h.rooms[msg.RoomName], client).
evictKeepMember(h, room, full) ==
    [h EXCEPT
       !.closed = [c \in Workers |-> h.closed[c] \/ c \in full],
       !.clients = h.clients \ full]

\* The default case of handleBroadcast's select, for the clients in full.
evict(h, room, full) ==
    [h EXCEPT
       !.closed = [c \in Workers |-> h.closed[c] \/ c \in full],
       !.clients = h.clients \ full,
       !.rooms = [r \in DOMAIN h.rooms |->
                    IF r = room THEN h.rooms[r] \ full ELSE h.rooms[r]]]

\* Hub.handleBroadcast: every client's outcome depends on its own channel
\* only, so the order of the range does not matter.  A frame that a
\* writePump takes while the range runs is one it took before the step.
handleBroadcast(h0, msg) ==
    LET Range(h) ==
          LET jsonMsg == Marshal(msg)
              members == roomClients(h, msg)
              sent    == {c \in members : SelectSend(h, c) = "sent"}
              full    == {c \in members : SelectSend(h, c) = "default"}
              stuck   == {c \in members : SelectSend(h, c) = "blocked"}
              broken  == {c \in members : SelectSend(h, c) = "panic"}
              entry   == [msg |-> msg, members |-> members, to |-> sent,
                          evicted |-> full, ev |-> h.ev]
          IN IF h.pc # "select" THEN h
             ELSE [evict(h, msg.RoomName, full) EXCEPT
               !.send = [c \in Workers |->
                           IF c \in sent THEN Append(h.send[c], jsonMsg)
                           ELSE h.send[c]],
               !.pc = IF broken # {} THEN "panic"
                      ELSE IF stuck # {} THEN "send" ELSE "select",
               !.sends = Append(h.sends, entry),
               !.log = [h.log EXCEPT ![msg.RoomName] = Append(@, entry)]]
    IN Only({Range(h) : h \in {h0}})

\* Hub.broadcastRoomUsers; o is the order the range over the room visits.
broadcastRoomUsers(h0, room, o) ==
    LET Roster(h) ==
          LET users == IF room \in DOMAIN h.rooms
                       THEN InOrder(o, h.rooms[room]) ELSE <<>>
          IN handleBroadcast(h, rosterMessage(room,
                 [i \in 1..Len(users) |-> UsernameOf(users[i])]))
    IN Only({Roster(h) : h \in {h0}})

\* A handleRegister that puts the client into h.clients only.
addClientGlobalOnly(h, client) ==
    LET room == RoomOf(client)
        h1 == IF room \in DOMAIN h.rooms THEN h
              ELSE [h EXCEPT !.rooms =
                      [r \in DOMAIN h.rooms \cup {room} |->
                         IF r = room THEN {} ELSE h.rooms[r]]]
    IN [h1 EXCEPT !.clients = @ \cup {client}]

\* handleRegister up to h.clients[client] = true.
addClient(h, client) ==
    LET room == RoomOf(client)
        h1 == IF room \in DOMAIN h.rooms THEN h
              ELSE [h EXCEPT !.rooms =
                      [r \in DOMAIN h.rooms \cup {room} |->
                         IF r = room THEN {} ELSE h.rooms[r]]]
    IN [h1 EXCEPT !.rooms[room] = @ \cup {client},
                  !.clients = @ \cup {client}]

\* A handleRegister that also announces the join, as well as the handler.
handleRegisterAnnounce(h, client, o) ==
    broadcastRoomUsers(
        handleBroadcast(Only({addClient(x, client) : x \in {h}}), joinMessage(client)),
        RoomOf(client), o)

\* A handleRegister that sends the roster before it adds the client.
handleRegisterLate(h, client, o) ==
    Only({addClient(x, client) : x \in {broadcastRoomUsers(h, RoomOf(client), o)}})

\* Hub.handleRegister
handleRegister(h, client, o) ==
    broadcastRoomUsers(Only({addClient(x, client) : x \in {h}}), RoomOf(client), o)

\* A handleUnregister without its guard.
knownAlways(h, client) == TRUE

\* A guard that also lets an evicted client through.
knownOrEvicted(h, client) == client \in h.clients \/ h.closed[client]

\* if _, exists := h.clients[client]; !exists { return }
known(h, client) == client \in h.clients

\* delete(h.clients, client); delete(h.rooms[client.room], client)
removeClient(h, client) ==
    [h EXCEPT
       !.clients = @ \ {client},
       !.rooms = [r \in DOMAIN h.rooms |->
                    IF r = RoomOf(client) THEN h.rooms[r] \ {client}
                    ELSE h.rooms[r]]]

\* if len(h.rooms[client.room]) == 0 { delete(h.rooms, client.room) }; a
\* Hub that did not come back from the broadcasts does not get here.
deleteEmptyRoom(h, room) ==
    IF room \in DOMAIN h.rooms /\ h.rooms[room] = {} /\ h.pc = "select"
    THEN [h EXCEPT !.rooms = [r \in DOMAIN h.rooms \ {room} |-> h.rooms[r]]]
    ELSE h

\* A handleUnregister that broadcasts before it removes the client.
handleUnregisterStale(h0, client, o) ==
    LET Leave(h) ==
          IF ~known(h, client) THEN h
          ELSE LET h1 == handleBroadcast(h, leftMessage(client))
                   h2 == broadcastRoomUsers(h1, RoomOf(client), o)
               IN Only({deleteEmptyRoom(removeClient(x, client), RoomOf(client)) :
                           x \in {h2}})
    IN Only({Leave(h) : h \in {h0}})

\* Hub.handleUnregister
handleUnregister(h0, client, o) ==
    LET Leave(h) ==
          IF ~known(h, client) THEN h
          ELSE LET h1 == removeClient(h, client)
                   h2 == handleBroadcast(h1, leftMessage(client))
                   h3 == broadcastRoomUsers(h2, RoomOf(client), o)
               IN Only({deleteEmptyRoom(x, RoomOf(client)) : x \in {h3}})
    IN Only({Leave(h) : h \in {h0}})

\* The Hub's variables after one event has been handled.
HubDone(h0) ==
    \E h \in {h0} :
        /\ clients' = h.clients
        /\ rooms' = h.rooms
        /\ send' = h.send
        /\ closed' = h.closed
        /\ hubpc' = h.pc
        /\ log' = h.log
        /\ step' = [op |-> h.ev.op, client |-> h.ev.client, sends |-> h.sends]

\* h.rooms[r]: the clients of room r, none when the key is missing.
Members(r) == IF r \in DOMAIN rooms THEN rooms[r] ELSE {}

\* Hub.Run, case client := <-h.register: the handler's send completes.
HubRegister(c) ==
    /\ hubpc = "select"
    /\ apc[c] = "register"
    /\ \E o \in Orders(Members(RoomOf(c)) \cup {c}) :
           HubDone(handleRegister(HubState("register", c), c, o))
    /\ apc' = [apc EXCEPT ![c] = "join"]
    /\ UNCHANGED <<conn, rpc, wpc, inmsg, nread>>
    /\ UNCHANGED timers

\* Hub.Run, case message := <-h.broadcast, the sender being the admission
\* handler with its joinMessage; the handler then starts both pumps:
\* writePump makes its ticker and readPump sets the first read deadline.
HubBroadcastJoin(c) ==
    /\ hubpc = "select"
    /\ apc[c] = "join"
    /\ HubDone(handleBroadcast(HubState("broadcast", c), joinMessage(c)))
    /\ apc' = [apc EXCEPT ![c] = "done"]
    /\ rpc' = [rpc EXCEPT ![c] = "read"]
    /\ wpc' = [wpc EXCEPT ![c] = "run"]
    /\ ticker' = [ticker EXCEPT ![c] = pingPeriod]
    /\ sincePing' = [sincePing EXCEPT ![c] = 0]
    /\ readDeadline' = [readDeadline EXCEPT ![c] = pongWait]
    /\ sinceAck' = [sinceAck EXCEPT ![c] = 0]
    /\ UNCHANGED <<conn, inmsg, nread>>

\* Hub.Run, case message := <-h.broadcast, the sender being a readPump.
HubBroadcastChat(c) ==
    /\ hubpc = "select"
    /\ rpc[c] = "forward"
    /\ HubDone(handleBroadcast(HubState("broadcast", c), chatMessage(c, inmsg[c])))
    /\ rpc' = [rpc EXCEPT ![c] = "read"]
    /\ inmsg' = [inmsg EXCEPT ![c] = <<>>]
    /\ UNCHANGED <<conn, apc, wpc, nread>>
    /\ UNCHANGED timers

\* Hub.Run, case client := <-h.unregister.
HubUnregister(c) ==
    /\ hubpc = "select"
    /\ rpc[c] = "unregister"
    /\ \E o \in Orders(Members(RoomOf(c))) :
           HubDone(handleUnregister(HubState("unregister", c), c, o))
    /\ rpc' = [rpc EXCEPT ![c] = "close"]
    /\ UNCHANGED <<conn, apc, wpc, inmsg, nread>>
    /\ UNCHANGED timers

(* ------------------------------------------------------------- admission *)

\* HandleWebSocket up to h.register <- client: the parameters are checked,
\* the connection is upgraded and the Client is built.  A request that is
\* rejected, or whose upgrade fails, returns with nothing changed: that
\* client stays "new".
HandleWebSocket(c) ==
    /\ apc[c] = "new"
    /\ RoomOf(c) # "" /\ UsernameOf(c) # <<>>
    /\ apc' = [apc EXCEPT ![c] = "register"]
    /\ step' = NoStep
    /\ UNCHANGED timers
    /\ UNCHANGED <<clients, rooms, hubpc, send, closed, conn, rpc, wpc, inmsg,
                   nread, log>>

(* -------------------------------------------------------------- readPump *)

\* A readPump that sets the read deadline anew for every frame it reads.
ReadMessageResets(c) ==
    /\ rpc[c] = "read"
    /\ conn[c] = "open"
    /\ readDeadline[c] > 0
    /\ nread < MaxChats
    /\ \E text \in ChatContents :
          /\ text = FrameText(nread + 1)
          /\ inmsg' = [inmsg EXCEPT ![c] = text]
    /\ nread' = nread + 1
    /\ rpc' = [rpc EXCEPT ![c] = "forward"]
    /\ step' = NoStep
    /\ readDeadline' = [readDeadline EXCEPT ![c] = pongWait]
    /\ UNCHANGED <<ticker, sinceAck, sincePing>>
    /\ UNCHANGED <<clients, rooms, hubpc, send, closed, conn, apc, wpc, log>>

\* c.conn.ReadMessage() returns a frame, the read deadline not having
\* passed: the pump builds the chat Message and blocks in
\* c.hub.broadcast <- msg.  The deadline stays as it is.
ReadMessage(c) ==
    /\ rpc[c] = "read"
    /\ conn[c] = "open"
    /\ readDeadline[c] > 0
    /\ nread < MaxChats
    /\ \E text \in ChatContents :
          /\ text = FrameText(nread + 1)
          /\ inmsg' = [inmsg EXCEPT ![c] = text]
    /\ nread' = nread + 1
    /\ rpc' = [rpc EXCEPT ![c] = "forward"]
    /\ step' = NoStep
    /\ UNCHANGED timers
    /\ UNCHANGED <<clients, rooms, hubpc, send, closed, conn, apc, wpc, log>>

\* A readPump that returns without the unregister of its deferred function.
ReadErrorSilent(c) ==
    /\ rpc[c] = "read"
    /\ rpc' = [rpc EXCEPT ![c] = "close"]
    /\ step' = NoStep
    /\ UNCHANGED timers
    /\ UNCHANGED <<clients, rooms, hubpc, send, closed, conn, apc, wpc, inmsg,
                   nread, log>>

\* c.conn.ReadMessage() returns an error (the peer closed, the deadline
\* passed, the frame was too large, or the connection was closed by
\* writePump): the loop breaks and the deferred function blocks in
\* c.hub.unregister <- c.
ReadError(c) ==
    /\ rpc[c] = "read"
    /\ rpc' = [rpc EXCEPT ![c] = "unregister"]
    /\ step' = NoStep
    /\ UNCHANGED timers
    /\ UNCHANGED <<clients, rooms, hubpc, send, closed, conn, apc, wpc, inmsg,
                   nread, log>>

\* A readPump whose deferred function does not close the connection.
ReadCloseKeepsConn(c) ==
    /\ rpc[c] = "close"
    /\ rpc' = [rpc EXCEPT ![c] = "done"]
    /\ step' = NoStep
    /\ UNCHANGED timers
    /\ UNCHANGED <<clients, rooms, hubpc, send, closed, conn, apc, wpc, inmsg,
                   nread, log>>

\* The deferred c.conn.Close() of readPump.
ReadClose(c) ==
    /\ rpc[c] = "close"
    /\ rpc' = [rpc EXCEPT ![c] = "done"]
    /\ conn' = [conn EXCEPT ![c] = "closed"]
    /\ step' = NoStep
    /\ UNCHANGED timers
    /\ UNCHANGED <<clients, rooms, hubpc, send, closed, apc, wpc, inmsg, nread, log>>

(* ------------------------------------------------------------- writePump *)

\* A writePump that takes the newest frame of the channel, not the oldest.
WriteMessageLast(c) ==
    /\ wpc[c] = "run"
    /\ send[c] # <<>>
    /\ send' = [send EXCEPT ![c] = SubSeq(@, 1, Len(@) - 1)]
    /\ \/ /\ conn[c] = "open"
          /\ UNCHANGED <<wpc, conn>>
       \/ /\ wpc' = [wpc EXCEPT ![c] = "done"]
          /\ conn' = [conn EXCEPT ![c] = "closed"]
    /\ step' = NoStep
    /\ UNCHANGED timers
    /\ UNCHANGED <<clients, rooms, hubpc, closed, apc, rpc, inmsg, nread, log>>

\* case message, ok := <-c.send with ok: the frame is written, or
\* NextWriter fails (always on a closed connection) and the pump returns,
\* its deferred function closing the connection.
WriteMessage(c) ==
    /\ wpc[c] = "run"
    /\ send[c] # <<>>
    /\ send' = [send EXCEPT ![c] = Tail(@)]
    /\ \/ /\ conn[c] = "open"
          /\ UNCHANGED <<wpc, conn>>
       \/ /\ wpc' = [wpc EXCEPT ![c] = "done"]
          /\ conn' = [conn EXCEPT ![c] = "closed"]
    /\ step' = NoStep
    /\ UNCHANGED timers
    /\ UNCHANGED <<clients, rooms, hubpc, closed, apc, rpc, inmsg, nread, log>>

\* case message, ok := <-c.send with !ok: the channel is closed and drained;
\* a close frame is written and the pump returns.
WriteClosed(c) ==
    /\ wpc[c] = "run"
    /\ send[c] = <<>>
    /\ closed[c]
    /\ wpc' = [wpc EXCEPT ![c] = "done"]
    /\ conn' = [conn EXCEPT ![c] = "closed"]
    /\ step' = NoStep
    /\ UNCHANGED timers
    /\ UNCHANGED <<clients, rooms, hubpc, send, closed, apc, rpc, inmsg, nread, log>>

\* case <-ticker.C with a failing ping: the pump returns.  (A ping that
\* succeeds changes nothing.)
WritePingError(c) ==
    /\ wpc[c] = "run"
    /\ wpc' = [wpc EXCEPT ![c] = "done"]
    /\ conn' = [conn EXCEPT ![c] = "closed"]
    /\ step' = NoStep
    /\ UNCHANGED timers
    /\ UNCHANGED <<clients, rooms, hubpc, send, closed, apc, rpc, inmsg, nread, log>>

(* ------------------------------------------------------------------ spec *)

Next ==
    \E c \in Workers :
        \/ HandleWebSocket(c)
        \/ HubRegister(c)
        \/ HubBroadcastJoin(c)
        \/ HubBroadcastChat(c)
        \/ HubUnregister(c)
        \/ ReadMessage(c)
        \/ ReadError(c)
        \/ ReadClose(c)
        \/ WriteMessage(c)
        \/ WriteClosed(c)
        \/ WritePingError(c)

Spec == Init /\ [][Next]_vars

\* One receive of Hub.Run's select, from client c's blocked sender.
HubStep(c) ==
    HubRegister(c) \/ HubBroadcastJoin(c) \/ HubBroadcastChat(c) \/ HubUnregister(c)

\* Hub.Run is a for loop around a select that never ends: a sender blocked
\* on one of the three channels stays blocked until the Hub receives from
\* it, and a select among ready cases picks each of them sooner or later.
Fairness == \A c \in Workers : WF_vars(HubStep(c))

\* The runs the eventualities are checked on: one peer in each room.
FairInit == Init /\ apc["B"] = "absent"

FairSpec == FairInit /\ [][Next]_vars /\ Fairness

\* The pumps are goroutines that run on: ReadMessage on a connection that
\* was closed returns its error, the deferred Close follows the unregister
\* send, a frame or the close of c.send that is ready in writePump's select
\* is received, and on a closed connection the ping of the next tick of
\* the ticker fails.
PumpFairness ==
    \A c \in Workers :
        /\ WF_vars(ReadError(c) /\ conn[c] = "closed")
        /\ WF_vars(ReadClose(c))
        /\ WF_vars(WriteMessage(c))
        /\ WF_vars(WriteClosed(c))
        /\ WF_vars(WritePingError(c) /\ conn[c] = "closed")

LiveSpec == FairInit /\ [][Next]_vars /\ Fairness /\ PumpFairness

(* ------------------------------------------------------------------ time *)

\* A sender of client c is blocked on one of the Hub's channels.
Pending(c) ==
    apc[c] \in {"register", "join"} \/ rpc[c] \in {"forward", "unregister"}

\* Time passes by one Quantum.  Only waiting takes time: the Hub has
\* nothing to receive, no ReadMessage waits past its read deadline and no
\* running writePump leaves a tick of its ticker unserved.
Tick ==
    /\ \A c \in Workers : ~Pending(c)
    /\ \E c \in Workers : rpc[c] = "read" \/ wpc[c] = "run"
    /\ \A c \in Workers : rpc[c] = "read" => readDeadline[c] > 0
    /\ \A c \in Workers : wpc[c] = "run" => ticker[c] > 0
    /\ readDeadline' = [c \in Workers |->
           IF rpc[c] = "read" THEN readDeadline[c] - Quantum ELSE readDeadline[c]]
    /\ sinceAck' = [c \in Workers |->
           IF rpc[c] = "read" THEN sinceAck[c] + Quantum ELSE sinceAck[c]]
    /\ ticker' = [c \in Workers |->
           IF wpc[c] = "run" THEN ticker[c] - Quantum ELSE ticker[c]]
    /\ sincePing' = [c \in Workers |->
           IF wpc[c] = "run" THEN sincePing[c] + Quantum ELSE sincePing[c]]
    /\ step' = NoStep
    /\ UNCHANGED <<clients, rooms, hubpc, send, closed, conn, apc, rpc, wpc, inmsg,
                   nread, log>>

\* A pong handler that allows twice pongWait.
PongDoubles(c) ==
    /\ rpc[c] = "read"
    /\ conn[c] = "open"
    /\ readDeadline[c] > 0
    /\ readDeadline' = [readDeadline EXCEPT ![c] = 2 * pongWait]
    /\ sinceAck' = [sinceAck EXCEPT ![c] = 0]
    /\ step' = NoStep
    /\ UNCHANGED <<clients, rooms, hubpc, send, closed, conn, apc, rpc, wpc, inmsg,
                   nread, log, ticker, sincePing>>

\* The peer's pong arrives while ReadMessage waits: the pong handler sets
\* the read deadline to time.Now().Add(pongWait).
PongReceived(c) ==
    /\ rpc[c] = "read"
    /\ conn[c] = "open"
    /\ readDeadline[c] > 0
    /\ readDeadline' = [readDeadline EXCEPT ![c] = pongWait]
    /\ sinceAck' = [sinceAck EXCEPT ![c] = 0]
    /\ step' = NoStep
    /\ UNCHANGED <<clients, rooms, hubpc, send, closed, conn, apc, rpc, wpc, inmsg,
                   nread, log, ticker, sincePing>>

\* case <-ticker.C with a ping that is written: the ticker fires again
\* pingPeriod later.
PingSent(c) ==
    /\ wpc[c] = "run"
    /\ ticker[c] = 0
    /\ conn[c] = "open"
    /\ ticker' = [ticker EXCEPT ![c] = pingPeriod]
    /\ sincePing' = [sincePing EXCEPT ![c] = 0]
    /\ step' = NoStep
    /\ UNCHANGED <<clients, rooms, hubpc, send, closed, conn, apc, rpc, wpc, inmsg,
                   nread, log, readDeadline, sinceAck>>

\* case <-ticker.C with a ping that fails, the ticker having fired.
PingFailed(c) ==
    /\ ticker[c] = 0
    /\ WritePingError(c)

\* One peer connects, and time passes.
TimedInit == InitWith({"A"})

TimedNext ==
    \/ Tick
    \/ \E c \in Workers :
          \/ HandleWebSocket(c)
          \/ HubRegister(c)
          \/ HubBroadcastJoin(c)
          \/ HubBroadcastChat(c)
          \/ HubUnregister(c)
          \/ ReadMessage(c)
          \/ ReadError(c)
          \/ ReadClose(c)
          \/ WriteMessage(c)
          \/ WriteClosed(c)
          \/ PongReceived(c)
          \/ PingSent(c)
          \/ PingFailed(c)

TimedSpec == TimedInit /\ [][TimedNext]_vars

(* ---------------------------------------------- what the properties read *)

\* The usernames of a set of clients.
Usernames(S) == {UsernameOf(c) : c \in S}

\* The wire messages put into client c's channel so far, in order.
RECURSIVE ReceivedFrom(_, _)
ReceivedFrom(entries, c) ==
    IF entries = <<>> THEN <<>>
    ELSE (IF c \in Head(entries).to THEN <<Marshal(Head(entries).msg)>> ELSE <<>>)
         \o ReceivedFrom(Tail(entries), c)

Received(c) == ReceivedFrom(log[RoomOf(c)], c)

\* The content of the last online_users routed for room r.
LastRoster(r) ==
    LET at == {i \in 1..Len(log[r]) : log[r][i].msg.Type = "online_users"}
    IN IF at = {} THEN <<>>
       ELSE log[r][CHOOSE i \in at : \A j \in at : j <= i].msg.Content

\* No register, deregister or route is waiting for the Hub.
Settled ==
    \A c \in Workers :
        apc[c] \notin {"register", "join"} /\ rpc[c] \notin {"forward", "unregister"}

(* ---------------------------------------------------------------- claims *)

\* C1 Room isolation: whenever the Hub puts messages into a client's
\* channel, every one of them carries that client's own room, the channel is
\* not closed, and the client is a member of that room when the Hub starts
\* the step, or is the client the step registers.
RoomIsolation ==
    [][\A c \in Workers :
          Len(send'[c]) > Len(send[c]) =>
              /\ ~closed[c]
              /\ \A i \in (Len(send[c]) + 1)..Len(send'[c]) :
                     send'[c][i].room = RoomOf(c)
              /\ \/ c \in clients /\ c \in Members(RoomOf(c))
                 \/ step'.op = "register" /\ step'.client = c]_vars

\* C1 witness: a message was routed in the lobby to A alone while C is
\* registered in the den.
RoomIsolationWitness ==
    /\ step.op = "broadcast"
    /\ step.sends[1].msg.RoomName = "lobby"
    /\ step.sends[1].to = {"A"}
    /\ "C" \in clients
    /\ send["C"] # <<>>

\* C2 Membership invariant: every registered client is in the set of its own
\* room and of no other room, and every member of a room is registered.
MembershipInvariant ==
    /\ \A c \in clients :
          /\ c \in Members(RoomOf(c))
          /\ \A r \in DOMAIN rooms : c \in rooms[r] => r = RoomOf(c)
    /\ \A r \in DOMAIN rooms : rooms[r] \subseteq clients

\* C2 witness: after an eviction, another client is still registered.
MembershipWitness ==
    \E c, d \in Workers : closed[c] /\ d \in clients /\ d \in Members(RoomOf(d))

\* C3 Room lifecycle: a room key is in the mapping exactly when the room
\* has a member.
RoomLifecycle ==
    \A r \in Rooms : (r \in DOMAIN rooms) <=> (\E c \in clients : RoomOf(c) = r /\ c \in Members(r))

\* C4 Roster accuracy: once nothing is waiting for the Hub, the last roster
\* routed for a room names exactly the usernames of the room's members.
RosterAccuracy ==
    Settled => \A r \in Rooms : RosterNames(LastRoster(r)) = Usernames(Members(r))

\* The message a route step is about: the handler's joinMessage, or the
\* chat a readPump forwards.
RouteMessage(c) ==
    IF apc[c] = "join" THEN joinMessage(c) ELSE chatMessage(c, inmsg[c])

\* C5 Backpressure eviction: in one route step every member of the room
\* with a full channel has it closed and is removed from both sets, and
\* every other member gets the message.
BackpressureEviction ==
    [][step'.op = "broadcast" =>
          LET msg == RouteMessage(step'.client)
          IN \A c \in Members(msg.RoomName) :
                IF Len(send[c]) >= SendBufSize
                THEN /\ closed'[c]
                     /\ send'[c] = send[c]
                     /\ c \notin clients'
                     /\ \A r \in DOMAIN rooms' : c \notin rooms'[r]
                ELSE /\ send'[c] = Append(send[c], Marshal(msg))
                     /\ ~closed'[c]
                     /\ c \in clients']_vars

\* C5 witness: one route step evicted a member and delivered to another.
BackpressureWitness ==
    /\ step.op = "broadcast"
    /\ step.sends[1].evicted # {}
    /\ step.sends[1].to # {}
    /\ \A c \in step.sends[1].evicted : closed[c] /\ c \notin clients

\* C6 The Hub never blocks on a client: it always stands at its select,
\* whatever waits there can be received at once, and under the fairness of
\* the loop every register, route and deregister that waits is received (a
\* sender stops waiting only when the Hub receives from it, and the
\* handler's register is followed at once by its join message, so the
\* client stops waiting when both have been received).
CoordinatorNeverBlocks ==
    /\ [](hubpc = "select" /\ \A c \in Workers : Pending(c) => ENABLED HubStep(c))
    /\ \A c \in Workers : Pending(c) ~> ~Pending(c)

\* C6 witness: a route found the channel of every member of the room full,
\* and the Hub stands at its select with another event waiting.
CoordinatorWitness ==
    /\ step.op = "broadcast"
    /\ step.sends[1].members # {}
    /\ step.sends[1].to = {}
    /\ hubpc = "select"
    /\ \E c \in Workers : Pending(c)

\* C7 Deregister: for a registered client the step removes it from both
\* sets and routes user_left and then one roster to its room; for a client
\* that is not registered it routes nothing and changes nothing.
DeregisterEffect ==
    [][step'.op = "unregister" =>
          LET c == step'.client
          IN IF c \in clients
             THEN /\ c \notin clients'
                  /\ \A r \in DOMAIN rooms' : c \notin rooms'[r]
                  /\ Len(step'.sends) = 2
                  /\ step'.sends[1].msg = leftMessage(c)
                  /\ step'.sends[2].msg.Type = "online_users"
                  /\ step'.sends[2].msg.RoomName = RoomOf(c)
                  /\ log'[RoomOf(c)] = log[RoomOf(c)] \o step'.sends
             ELSE /\ step'.sends = <<>>
                  /\ clients' = clients
                  /\ rooms' = rooms
                  /\ send' = send
                  /\ closed' = closed
                  /\ log' = log]_vars

\* C7 witness: a deregister whose user_left and roster reached a member.
DeregisterWitness ==
    /\ step.op = "unregister"
    /\ Len(step.sends) = 2
    /\ step.sends[1].to # {}
    /\ step.sends[2].to # {}

\* How many user_joined messages naming client c were routed to room r.
JoinedCount(c, r) ==
    Cardinality({i \in 1..Len(log[r]) :
                    /\ log[r][i].msg.Type = "user_joined"
                    /\ log[r][i].msg.Username = UsernameOf(c)})

\* How many rosters the Register of client c routed to room r.
RegisterRosterCount(c, r) ==
    Cardinality({i \in 1..Len(log[r]) :
                    /\ log[r][i].msg.Type = "online_users"
                    /\ log[r][i].ev = [op |-> "register", client |-> c]})

\* C8 Join notification: every Register that waits for the Hub leads to
\* one user_joined naming the client and one roster of its Register routed
\* to its room, and never to more than one of either, nor to any in
\* another room.
JoinNotification ==
    \A c \in Workers :
        /\ (apc[c] = "register") ~>
               (JoinedCount(c, RoomOf(c)) = 1 /\ RegisterRosterCount(c, RoomOf(c)) = 1)
        /\ [](\A r \in Rooms :
                 /\ JoinedCount(c, r) <= (IF r = RoomOf(c) THEN 1 ELSE 0)
                 /\ RegisterRosterCount(c, r) <= (IF r = RoomOf(c) THEN 1 ELSE 0))

\* C8 witness: a client's join has just been announced, one roster and one
\* user_joined in all, with the Register of another client handled between
\* its Register and its announcement.
JoinNotificationWitness ==
    \E c, d \in Workers :
        /\ c # d
        /\ JoinedCount(c, RoomOf(c)) = 1
        /\ RegisterRosterCount(c, RoomOf(c)) = 1
        /\ step.op = "broadcast" /\ step.client = c
        /\ step.sends[1].msg = joinMessage(c)
        /\ apc[d] = "join"

IsRosterWith(m, c) ==
    m.type = "online_users" /\ UsernameOf(c) \in RosterNames(m.content)

Lobby == log["lobby"]

ScenarioRun ==
    /\ Len(Lobby) = 7
    /\ Lobby[1].ev = [op |-> "register", client |-> "A"]
    /\ Lobby[5].msg = chatMessage("A", <<"hi">>)
    /\ Lobby[6].msg = leftMessage("B")
    /\ Lobby[7].ev = [op |-> "unregister", client |-> "B"]
    /\ \A i \in 1..7 : Lobby[i].evicted = {}

\* Client c has received wire message m.
Got(c, m) == \E i \in 1..Len(Received(c)) : Received(c)[i] = m

\* Client c has received a roster naming exactly the usernames in names.
GotRoster(c, names) ==
    \E i \in 1..Len(Received(c)) :
        /\ Received(c)[i].type = "online_users"
        /\ Received(c)[i].room = "lobby"
        /\ RosterNames(Received(c)[i].content) = names

\* What the scenario promises whatever the order of the joins.
ScenarioCommon ==
    /\ Got("A", Marshal(joinMessage("B")))
    /\ GotRoster("A", {<<"alice">>, <<"bob">>})
    /\ GotRoster("B", {<<"alice">>, <<"bob">>})
    /\ Got("A", [type |-> "chat", content |-> <<"hi">>, room |-> "lobby",
                 username |-> <<"alice">>])
    /\ Got("B", [type |-> "chat", content |-> <<"hi">>, room |-> "lobby",
                 username |-> <<"alice">>])
    /\ Received("A")[Len(Received("A")) - 1] = Marshal(leftMessage("B"))
    /\ Received("A")[Len(Received("A"))] =
           [type |-> "online_users", content |-> <<"alice">>, room |-> "lobby",
            username |-> <<>>]

\* C10 as stated: B too receives the user_joined for alice.
EndToEnd ==
    ScenarioRun => ScenarioCommon /\ Got("B", Marshal(joinMessage("A")))

\* C10 amended: A receives the user_joined for bob, B its own user_joined,
\* and B receives the user_joined for alice only when that message was
\* routed after B's Register; the rest of the scenario is as stated.
EndToEndAmended ==
    ScenarioRun =>
        /\ ScenarioCommon
        /\ Got("B", Marshal(joinMessage("B")))
        /\ Got("B", Marshal(joinMessage("A"))) <=> (Lobby[2].msg # joinMessage("A"))

\* C10 witness: the scenario has run with A's join complete before B's
\* Register.
EndToEndWitness ==
    ScenarioRun /\ Lobby[2].msg = joinMessage("A")

\* The number of the frame that carries text.
FrameNo(text) == CHOOSE n \in 1..Len(Texts) : Texts[n] = text

\* C11 Same-room ordering: a client's channel holds, in the order the Hub
\* routed them, exactly the last messages routed to it, the earlier ones
\* having been taken by its writePump; the Hub puts the messages of a step
\* at the end of the channel in the order it routes them and the writePump
\* takes the oldest one; and the chats of one client are routed in the
\* order its peer sent the frames.
SameRoomOrdering ==
    /\ [](\A c \in Workers : \A got \in {Received(c)} :
             /\ Len(send[c]) <= Len(got)
             /\ send[c] = SubSeq(got, Len(got) - Len(send[c]) + 1, Len(got)))
    /\ [][\A c \in Workers :
             \/ send'[c] = send[c] \o ReceivedFrom(step'.sends, c)
             \/ wpc[c] = "run" /\ send[c] # <<>> /\ send'[c] = Tail(send[c])]_vars
    /\ [](\A r \in Rooms : \A L \in {log[r]} : \A j \in 1..Len(L) :
             L[j].msg.Type = "chat" =>
                 \A i \in 1..(j - 1) :
                    (L[i].msg.Type = "chat" /\ L[i].msg.Username = L[j].msg.Username)
                        => FrameNo(L[i].msg.Content) < FrameNo(L[j].msg.Content))

\* C11 witness: alice sent "hi" and then "yo", B was put both and its
\* writePump has written both to its peer.
SameRoomOrderingWitness ==
    /\ \E i, j \in 1..Len(Lobby) :
          /\ i < j
          /\ Lobby[i].msg = chatMessage("A", <<"hi">>) /\ "B" \in Lobby[i].to
          /\ Lobby[j].msg = chatMessage("A", <<"yo">>) /\ "B" \in Lobby[j].to
    /\ send["B"] = <<>>
    /\ wpc["B"] = "run" /\ conn["B"] = "open"

\* Both pumps of client c have returned: the worker is Closed.
Closed(c) == rpc[c] = "done" /\ wpc[c] = "done"

\* C12 Teardown propagation: a pump that has returned has closed the
\* connection, and the other pump then returns too; a Closed worker is in
\* neither set, stays Closed, and its handler never runs again.
TeardownPropagation ==
    /\ \A c \in Workers : (rpc[c] = "done") ~> (wpc[c] = "done")
    /\ \A c \in Workers : (wpc[c] = "done") ~> (rpc[c] = "done")
    /\ [](\A c \in Workers :
             /\ (rpc[c] = "done" \/ wpc[c] = "done") => conn[c] = "closed"
             /\ Closed(c) =>
                   /\ apc[c] = "done"
                   /\ c \notin clients
                   /\ \A r \in DOMAIN rooms : c \notin rooms[r])
    /\ [][\A c \in Workers : Closed(c) => Closed(c)' /\ apc'[c] = apc[c]]_vars

\* C12 witness: A is Closed, its channel never having been closed by the
\* Hub, while C is still registered.
TeardownWitness ==
    /\ Closed("A") /\ ~closed["A"]
    /\ "C" \in clients

\* C13 Heartbeat liveness: the ping period is shorter than pongWait; a
\* ReadMessage never waits longer than pongWait after the last pong (or
\* after readPump set its first deadline); when that time is up no more
\* time passes, no frame and no pong is read, and the read fails, taking
\* readPump to its deferred unregister; and a running writePump never lets
\* more than pingPeriod pass without a ping.
HeartbeatLiveness ==
    /\ pingPeriod < pongWait
    /\ [](\A c \in Workers : rpc[c] = "read" => sinceAck[c] <= pongWait)
    /\ [](\A c \in Workers :
             (rpc[c] = "read" /\ sinceAck[c] = pongWait) =>
                 /\ ENABLED ReadError(c)
                 /\ ~ENABLED Tick
                 /\ ~ENABLED ReadMessage(c)
                 /\ ~ENABLED PongReceived(c))
    /\ [][\A c \in Workers :
             (rpc[c] = "read" /\ sinceAck[c] = pongWait /\ rpc'[c] # rpc[c])
                 => rpc'[c] = "unregister"]_vars
    /\ [](\A c \in Workers : wpc[c] = "run" => sincePing[c] <= pingPeriod)

\* C13 witness: A's read failed pongWait after the last pong, a ping having
\* been sent in between, pingPeriod after the one before.
HeartbeatWitness ==
    /\ rpc["A"] = "unregister"
    /\ sinceAck["A"] = pongWait
    /\ wpc["A"] = "run"
    /\ sincePing["A"] = pongWait - pingPeriod

\* C14 as stated: reading a data frame puts the read deadline pongWait
\* ahead again.
ReadDeadlineReset ==
    [][\A c \in Workers :
          (rpc[c] = "read" /\ rpc'[c] = "forward") => readDeadline'[c] = pongWait]_vars

\* C14 amended: the read deadline is pongWait after the last pong, or after
\* readPump set its first deadline, and reading a data frame leaves it
\* where it is.
ReadDeadlineAmended ==
    /\ [](\A c \in Workers :
             rpc[c] \in {"read", "forward"} =>
                 readDeadline[c] = pongWait - sinceAck[c])
    /\ [][\A c \in Workers :
             (rpc[c] = "read" /\ rpc'[c] = "forward")
                 => readDeadline'[c] = readDeadline[c]]_vars

\* C14 witness: A has read a data frame and its deadline, set by a pong, is
\* less than pongWait away.
ReadDeadlineWitness ==
    /\ rpc["A"] = "forward"
    /\ sinceAck["A"] > 0
    /\ sinceAck["A"] < sincePing["A"]
    /\ readDeadline["A"] = pongWait - sinceAck["A"]

\* The connection of client c has ended: its read failed, a pump closed
\* the connection, or the Hub closed its channel.
Ended(c) == rpc[c] = "unregister" \/ conn[c] = "closed" \/ closed[c]

\* The Hub has received the unregister of client c's readPump.
Deregistered(c) == rpc[c] \in {"close", "done"}

\* C15 Deregistration is always delivered: once the connection of a client
\* has ended, the Hub receives its unregister and the client is in neither
\* set; readPump sends the unregister once, when its read has failed, and
\* never again.
DeregistrationDelivered ==
    /\ \A c \in Workers :
          Ended(c) ~> (/\ Deregistered(c)
                       /\ c \notin clients
                       /\ \A r \in DOMAIN rooms : c \notin rooms[r])
    /\ [][\A c \in Workers :
             /\ (rpc'[c] = "unregister" /\ rpc[c] # "unregister") => rpc[c] = "read"
             /\ (step'.op = "unregister" /\ step'.client = c)
                    => (rpc[c] = "unregister" /\ Deregistered(c)')
             /\ Deregistered(c) => Deregistered(c)']_vars

\* C15 witness: the Hub evicted A and has since received A's unregister,
\* while C is still registered.
DeregistrationWitness ==
    /\ closed["A"] /\ Deregistered("A")
    /\ "A" \notin clients
    /\ "C" \in clients

\* C16 Silent eviction: whatever a step evicts, a Register routes its one
\* roster, a route its one message and a Deregister of a registered client
\* its user_left and one roster, and nothing more; a user_left names the
\* client whose unregister the Hub is handling, never an evicted one; and
\* the Deregister of a client whose channel the Hub closed routes nothing
\* and changes nothing.
SilentEviction ==
    [][/\ step'.op \in {"register", "broadcast"} => Len(step'.sends) = 1
       /\ step'.op = "broadcast" => step'.sends[1].msg = RouteMessage(step'.client)
       /\ step'.op = "register" => step'.sends[1].msg.Type = "online_users"
       /\ step'.op = "unregister" =>
             Len(step'.sends) = (IF step'.client \in clients THEN 2 ELSE 0)
       /\ \A i \in 1..Len(step'.sends) :
             /\ step'.sends[i].msg.Type = "user_left" =>
                   /\ i = 1 /\ step'.op = "unregister"
                   /\ step'.sends[i].msg = leftMessage(step'.client)
                   /\ ~closed[step'.client]
             /\ (step'.sends[i].msg.Type = "online_users" /\ step'.op = "unregister")
                   => i = 2
       /\ (step'.op = "unregister" /\ closed[step'.client]) =>
             /\ step'.sends = <<>>
             /\ UNCHANGED <<clients, rooms, send, closed, log>>]_vars

\* C16 witness: the Hub has handled the unregister of an evicted client,
\* routing nothing, while its room has another member.
SilentEvictionWitness ==
    /\ step.op = "unregister"
    /\ closed[step.client]
    /\ step.sends = <<>>
    /\ Members(RoomOf(step.client)) # {}

\* C17 Route frame condition: a route step for room R none of whose
\* members has a full channel leaves the client set, the room mapping and
\* the closed channels as they are and appends the one message to the
\* channel of every member; and any route step leaves the channel of every
\* client that is not a member of R, and the member set of every other
\* room, as they are.
RouteFrame ==
    [][step'.op = "broadcast" =>
          LET msg == RouteMessage(step'.client)
              R   == msg.RoomName
          IN /\ (\A c \in Members(R) : Len(send[c]) < SendBufSize) =>
                   /\ UNCHANGED <<clients, rooms, closed>>
                   /\ \A c \in Members(R) :
                         send'[c] = Append(send[c], Marshal(msg))
             /\ \A c \in Workers \ Members(R) :
                   send'[c] = send[c] /\ closed'[c] = closed[c]
             /\ \A r \in DOMAIN rooms \ {R} :
                   r \in DOMAIN rooms' /\ rooms'[r] = rooms[r]
             /\ DOMAIN rooms' = DOMAIN rooms]_vars

\* C17 witness: a route in the lobby has evicted A while C, in the den,
\* keeps its place and the frames in its channel.
RouteFrameWitness ==
    /\ step.op = "broadcast"
    /\ step.sends[1].msg.RoomName = "lobby"
    /\ step.sends[1].evicted = {"A"}
    /\ "C" \in Members("den")
    /\ send["C"] # <<>>

\* C18 Closed-queue safety: the Hub has never panicked; no client in the
\* client set or in a room has a closed channel, so that no route can meet
\* one; a closed channel stays closed and gets no further frame; and the
\* clients a step evicts had open channels, none of them twice in the step.
ClosedQueueSafety ==
    /\ [](/\ hubpc = "select"
          /\ \A c \in clients : ~closed[c]
          /\ \A r \in DOMAIN rooms : \A c \in rooms[r] : ~closed[c])
    /\ [][/\ \A c \in Workers :
               closed[c] => closed'[c] /\ Len(send'[c]) <= Len(send[c])
          /\ \A i \in 1..Len(step'.sends) :
               /\ \A c \in step'.sends[i].members : ~closed[c]
               /\ \A j \in 1..(i - 1) :
                     step'.sends[j].evicted \cap step'.sends[i].members = {}]_vars

\* C18 witness: after the Hub evicted A, it routed another message to A's
\* room, which reached the other member and not A.
ClosedQueueWitness ==
    /\ step.op = "broadcast"
    /\ closed["A"]
    /\ step.sends[1].msg.RoomName = RoomOf("A")
    /\ step.sends[1].evicted = {}
    /\ step.sends[1].to = {"B"}

\* C19 Sender membership: the client whose chat the Hub routes is a member
\* of the room at that moment, and the chat of a client that is not is put
\* to nobody.
SenderMembership ==
    (step.op = "broadcast" /\ step.sends[1].msg.Type = "chat") =>
        /\ step.client \in step.sends[1].members
        /\ step.client \notin step.sends[1].members => step.sends[1].to = {}

\* C20 First message on join: the Register step of a client finds its
\* channel empty and open, puts into it the roster it routes, which names
\* the client, and evicts others at most; and the first message ever put
\* into a client's channel is the roster of its own Register.
FirstMessageOnJoin ==
    /\ [][step'.op = "register" =>
            LET c == step'.client
            IN /\ send[c] = <<>> /\ ~closed[c]
               /\ c \in step'.sends[1].to
               /\ c \notin step'.sends[1].evicted
               /\ send'[c] = <<Marshal(step'.sends[1].msg)>>
               /\ IsRosterWith(send'[c][1], c)
               /\ c \in clients' /\ ~closed'[c]]_vars
    /\ [](\A c \in Workers : \A L \in {log[RoomOf(c)]} :
             \A S \in {{i \in 1..Len(L) : c \in L[i].to}} :
                S # {} =>
                    \A k \in {CHOOSE k \in S : \A j \in S : k <= j} :
                       /\ L[k].ev = [op |-> "register", client |-> c]
                       /\ IsRosterWith(Marshal(L[k].msg), c))

\* C20 witness: the roster of B's Register found A's channel full and
\* evicted A, and is the one frame in B's channel.
FirstMessageWitness ==
    /\ step.op = "register" /\ step.client = "B"
    /\ step.sends[1].evicted = {"A"}
    /\ Len(send["B"]) = 1
    /\ IsRosterWith(send["B"][1], "B")

====
